---- MODULE Spec2Model ----
(***************************************************************************)
(* Model of streamlit_app.py: the day-number calculator (get_day_number),  *)
(* the identifier normalizer (clean_input), the shift rotation resolver    *)
(* (get_shift_type_or_info) and the "Calculate" button handler.            *)
(*                                                                         *)
(* Representation.                                                         *)
(*   - A Python str is the sequence of its characters' code points.        *)
(*   - A Python value passed as shift_str is a record [type, val]: type is *)
(*     "str" (val holds the characters) or "NoneType" (a non-string).      *)
(*   - The int that int() returns, which has no bound, is its decimal      *)
(*     numeral (the str that str() gives for it): "-12", "0", "77...7".    *)
(*     Day numbers and date arithmetic are numbers.                        *)
(*   - A datetime.date is a record [y, m, d]; None, passed where a date is *)
(*     expected, is the record NoneDate (year 0, below datetime.MINYEAR).  *)
(*   - A value returned by get_shift_type_or_info is a record              *)
(*     [kind, head, tail, args]: kind "return" with head \o tail the       *)
(*     returned string (tail's {} filled by args, in order), kind "None"   *)
(*     for None, kind "raise" for an exception leaving the function (head  *)
(*     the exception type).                                                *)
(***************************************************************************)
EXTENDS Integers, Sequences, FiniteSets, TLC

VARIABLES
    shift_str,    \* the raw shift text (input_shift_raw / the shift_str argument)
    target_dt,    \* the selected date (input_date / the target_dt argument)
    day_num,      \* the day number: an argument of the resolver, or computed
    clean_shift,  \* what clean_input returned for shift_str
    result,       \* what get_shift_type_or_info (or a raising call) produced
    display,      \* the box the button handler showed
    pc            \* "start", then the operation that ran on the request

vars == <<shift_str, target_dt, day_num, clean_shift, result, display, pc>>

(***************************************************************************)
(* Bounds of the model.                                                    *)
(***************************************************************************)
\* longest raw string drawn character by character from CharAlphabet
MaxLen == 3
\* largest Gold/Silver count written after a line name
MaxCount == 7
\* whole years before / after the anchor's year that the calendar covers
YearsBack == 1
YearsFwd == 1

(***************************************************************************)
(* Characters and Python str methods.  A character is its Unicode code     *)
(* point.  The tables are those of CPython 3.11 (Unicode 14.0).            *)
(***************************************************************************)
\* the 29 characters for which str.isspace() holds; str.strip(), re's \s and
\* str.split() all use this set
Whitespace ==
    {9, 10, 11, 12, 13, 28, 29, 30, 31, 32, 133, 160, 5760}
    \cup (8192..8202) \cup {8232, 8233, 8239, 8287, 12288}

\* the code points of the digit zero of every Unicode decimal-digit block
\* (category Nd); the digits 1..9 of a block follow its zero
DigitZeros ==
    {
        48, 1632, 1776, 1984, 2406, 2534, 2662, 2790, 2918, 3046,
        3174, 3302, 3430, 3558, 3664, 3792, 3872, 4160, 4240, 6112,
        6160, 6470, 6608, 6784, 6800, 6992, 7088, 7232, 7248, 42528,
        43216, 43264, 43472, 43504, 43600, 44016, 65296, 66720, 68912, 69734,
        69872, 69942, 70096, 70384, 70736, 70864, 71248, 71360, 71472, 71904,
        72016, 72784, 73040, 73120, 92768, 92864, 93008, 120782, 120792, 120802,
        120812, 120822, 123200, 123632, 125264, 130032
    }

\* a decimal digit, as int() reads one
IsDigit(c) ==
    \/ 48 <= c /\ c <= 57
    \/ c > 127 /\ \E z \in DigitZeros : z <= c /\ c <= z + 9

\* the value of a decimal digit
DigitVal(c) ==
    IF c <= 57 THEN c - 48
    ELSE c - (CHOOSE z \in DigitZeros : z <= c /\ c <= z + 9)

\* the lower-case mappings outside ASCII that give one character:
\* <<first, last, step, delta>> maps first, first + step, ..., last to
\* themselves plus delta
LowerRanges ==
    {
        <<192, 214, 1, 32>>, <<216, 222, 1, 32>>, <<256, 302, 2, 1>>, <<306, 310, 2, 1>>,
        <<313, 327, 2, 1>>, <<330, 374, 2, 1>>, <<376, 376, 1, -121>>, <<377, 381, 2, 1>>,
        <<385, 385, 1, 210>>, <<386, 388, 2, 1>>, <<390, 390, 1, 206>>, <<391, 391, 1, 1>>,
        <<393, 394, 1, 205>>, <<395, 395, 1, 1>>, <<398, 398, 1, 79>>, <<399, 399, 1, 202>>,
        <<400, 400, 1, 203>>, <<401, 401, 1, 1>>, <<403, 403, 1, 205>>, <<404, 404, 1, 207>>,
        <<406, 406, 1, 211>>, <<407, 407, 1, 209>>, <<408, 408, 1, 1>>, <<412, 412, 1, 211>>,
        <<413, 413, 1, 213>>, <<415, 415, 1, 214>>, <<416, 420, 2, 1>>, <<422, 422, 1, 218>>,
        <<423, 423, 1, 1>>, <<425, 425, 1, 218>>, <<428, 428, 1, 1>>, <<430, 430, 1, 218>>,
        <<431, 431, 1, 1>>, <<433, 434, 1, 217>>, <<435, 437, 2, 1>>, <<439, 439, 1, 219>>,
        <<440, 440, 1, 1>>, <<444, 444, 1, 1>>, <<452, 452, 1, 2>>, <<453, 453, 1, 1>>,
        <<455, 455, 1, 2>>, <<456, 456, 1, 1>>, <<458, 458, 1, 2>>, <<459, 475, 2, 1>>,
        <<478, 494, 2, 1>>, <<497, 497, 1, 2>>, <<498, 500, 2, 1>>, <<502, 502, 1, -97>>,
        <<503, 503, 1, -56>>, <<504, 542, 2, 1>>, <<544, 544, 1, -130>>, <<546, 562, 2, 1>>,
        <<570, 570, 1, 10795>>, <<571, 571, 1, 1>>, <<573, 573, 1, -163>>, <<574, 574, 1, 10792>>,
        <<577, 577, 1, 1>>, <<579, 579, 1, -195>>, <<580, 580, 1, 69>>, <<581, 581, 1, 71>>,
        <<582, 590, 2, 1>>, <<880, 882, 2, 1>>, <<886, 886, 1, 1>>, <<895, 895, 1, 116>>,
        <<902, 902, 1, 38>>, <<904, 906, 1, 37>>, <<908, 908, 1, 64>>, <<910, 911, 1, 63>>,
        <<913, 929, 1, 32>>, <<932, 939, 1, 32>>, <<975, 975, 1, 8>>, <<984, 1006, 2, 1>>,
        <<1012, 1012, 1, -60>>, <<1015, 1015, 1, 1>>, <<1017, 1017, 1, -7>>, <<1018, 1018, 1, 1>>,
        <<1021, 1023, 1, -130>>, <<1024, 1039, 1, 80>>, <<1040, 1071, 1, 32>>, <<1120, 1152, 2, 1>>,
        <<1162, 1214, 2, 1>>, <<1216, 1216, 1, 15>>, <<1217, 1229, 2, 1>>, <<1232, 1326, 2, 1>>,
        <<1329, 1366, 1, 48>>, <<4256, 4293, 1, 7264>>, <<4295, 4295, 1, 7264>>, <<4301, 4301, 1, 7264>>,
        <<5024, 5103, 1, 38864>>, <<5104, 5109, 1, 8>>, <<7312, 7354, 1, -3008>>, <<7357, 7359, 1, -3008>>,
        <<7680, 7828, 2, 1>>, <<7838, 7838, 1, -7615>>, <<7840, 7934, 2, 1>>, <<7944, 7951, 1, -8>>,
        <<7960, 7965, 1, -8>>, <<7976, 7983, 1, -8>>, <<7992, 7999, 1, -8>>, <<8008, 8013, 1, -8>>,
        <<8025, 8031, 2, -8>>, <<8040, 8047, 1, -8>>, <<8072, 8079, 1, -8>>, <<8088, 8095, 1, -8>>,
        <<8104, 8111, 1, -8>>, <<8120, 8121, 1, -8>>, <<8122, 8123, 1, -74>>, <<8124, 8124, 1, -9>>,
        <<8136, 8139, 1, -86>>, <<8140, 8140, 1, -9>>, <<8152, 8153, 1, -8>>, <<8154, 8155, 1, -100>>,
        <<8168, 8169, 1, -8>>, <<8170, 8171, 1, -112>>, <<8172, 8172, 1, -7>>, <<8184, 8185, 1, -128>>,
        <<8186, 8187, 1, -126>>, <<8188, 8188, 1, -9>>, <<8486, 8486, 1, -7517>>, <<8490, 8490, 1, -8383>>,
        <<8491, 8491, 1, -8262>>, <<8498, 8498, 1, 28>>, <<8544, 8559, 1, 16>>, <<8579, 8579, 1, 1>>,
        <<9398, 9423, 1, 26>>, <<11264, 11311, 1, 48>>, <<11360, 11360, 1, 1>>, <<11362, 11362, 1, -10743>>,
        <<11363, 11363, 1, -3814>>, <<11364, 11364, 1, -10727>>, <<11367, 11371, 2, 1>>, <<11373, 11373, 1, -10780>>,
        <<11374, 11374, 1, -10749>>, <<11375, 11375, 1, -10783>>, <<11376, 11376, 1, -10782>>, <<11378, 11378, 1, 1>>,
        <<11381, 11381, 1, 1>>, <<11390, 11391, 1, -10815>>, <<11392, 11490, 2, 1>>, <<11499, 11501, 2, 1>>,
        <<11506, 11506, 1, 1>>, <<42560, 42604, 2, 1>>, <<42624, 42650, 2, 1>>, <<42786, 42798, 2, 1>>,
        <<42802, 42862, 2, 1>>, <<42873, 42875, 2, 1>>, <<42877, 42877, 1, -35332>>, <<42878, 42886, 2, 1>>,
        <<42891, 42891, 1, 1>>, <<42893, 42893, 1, -42280>>, <<42896, 42898, 2, 1>>, <<42902, 42920, 2, 1>>,
        <<42922, 42922, 1, -42308>>, <<42923, 42923, 1, -42319>>, <<42924, 42924, 1, -42315>>, <<42925, 42925, 1, -42305>>,
        <<42926, 42926, 1, -42308>>, <<42928, 42928, 1, -42258>>, <<42929, 42929, 1, -42282>>, <<42930, 42930, 1, -42261>>,
        <<42931, 42931, 1, 928>>, <<42932, 42946, 2, 1>>, <<42948, 42948, 1, -48>>, <<42949, 42949, 1, -42307>>,
        <<42950, 42950, 1, -35384>>, <<42951, 42953, 2, 1>>, <<42960, 42960, 1, 1>>, <<42966, 42968, 2, 1>>,
        <<42997, 42997, 1, 1>>, <<65313, 65338, 1, 32>>, <<66560, 66599, 1, 40>>, <<66736, 66771, 1, 40>>,
        <<66928, 66964, 2, 39>>, <<66929, 66937, 2, 39>>, <<66941, 66953, 2, 39>>, <<66957, 66961, 2, 39>>,
        <<66965, 66965, 1, 39>>, <<68736, 68786, 1, 64>>, <<71840, 71871, 1, 32>>, <<93760, 93791, 1, 32>>,
        <<125184, 125217, 1, 34>>
    }

\* characters that are cased and not case-ignorable, as <<first, last>>
CasedRanges ==
    {
        <<65, 90>>, <<97, 122>>, <<170, 170>>, <<181, 181>>, <<186, 186>>, <<192, 214>>,
        <<216, 246>>, <<248, 442>>, <<444, 447>>, <<452, 659>>, <<661, 687>>, <<880, 883>>,
        <<886, 887>>, <<891, 893>>, <<895, 895>>, <<902, 902>>, <<904, 906>>, <<908, 908>>,
        <<910, 929>>, <<931, 1013>>, <<1015, 1153>>, <<1162, 1327>>, <<1329, 1366>>, <<1376, 1416>>,
        <<4256, 4293>>, <<4295, 4295>>, <<4301, 4301>>, <<4304, 4346>>, <<4349, 4351>>, <<5024, 5109>>,
        <<5112, 5117>>, <<7296, 7304>>, <<7312, 7354>>, <<7357, 7359>>, <<7424, 7467>>, <<7531, 7543>>,
        <<7545, 7578>>, <<7680, 7957>>, <<7960, 7965>>, <<7968, 8005>>, <<8008, 8013>>, <<8016, 8023>>,
        <<8025, 8025>>, <<8027, 8027>>, <<8029, 8029>>, <<8031, 8061>>, <<8064, 8116>>, <<8118, 8124>>,
        <<8126, 8126>>, <<8130, 8132>>, <<8134, 8140>>, <<8144, 8147>>, <<8150, 8155>>, <<8160, 8172>>,
        <<8178, 8180>>, <<8182, 8188>>, <<8450, 8450>>, <<8455, 8455>>, <<8458, 8467>>, <<8469, 8469>>,
        <<8473, 8477>>, <<8484, 8484>>, <<8486, 8486>>, <<8488, 8488>>, <<8490, 8493>>, <<8495, 8500>>,
        <<8505, 8505>>, <<8508, 8511>>, <<8517, 8521>>, <<8526, 8526>>, <<8544, 8575>>, <<8579, 8580>>,
        <<9398, 9449>>, <<11264, 11387>>, <<11390, 11492>>, <<11499, 11502>>, <<11506, 11507>>, <<11520, 11557>>,
        <<11559, 11559>>, <<11565, 11565>>, <<42560, 42605>>, <<42624, 42651>>, <<42786, 42863>>, <<42865, 42887>>,
        <<42891, 42894>>, <<42896, 42954>>, <<42960, 42961>>, <<42963, 42963>>, <<42965, 42969>>, <<42997, 42998>>,
        <<43002, 43002>>, <<43824, 43866>>, <<43872, 43880>>, <<43888, 43967>>, <<64256, 64262>>, <<64275, 64279>>,
        <<65313, 65338>>, <<65345, 65370>>, <<66560, 66639>>, <<66736, 66771>>, <<66776, 66811>>, <<66928, 66938>>,
        <<66940, 66954>>, <<66956, 66962>>, <<66964, 66965>>, <<66967, 66977>>, <<66979, 66993>>, <<66995, 67001>>,
        <<67003, 67004>>, <<68736, 68786>>, <<68800, 68850>>, <<71840, 71903>>, <<93760, 93823>>, <<119808, 119892>>,
        <<119894, 119964>>, <<119966, 119967>>, <<119970, 119970>>, <<119973, 119974>>, <<119977, 119980>>, <<119982, 119993>>,
        <<119995, 119995>>, <<119997, 120003>>, <<120005, 120069>>, <<120071, 120074>>, <<120077, 120084>>, <<120086, 120092>>,
        <<120094, 120121>>, <<120123, 120126>>, <<120128, 120132>>, <<120134, 120134>>, <<120138, 120144>>, <<120146, 120485>>,
        <<120488, 120512>>, <<120514, 120538>>, <<120540, 120570>>, <<120572, 120596>>, <<120598, 120628>>, <<120630, 120654>>,
        <<120656, 120686>>, <<120688, 120712>>, <<120714, 120744>>, <<120746, 120770>>, <<120772, 120779>>, <<122624, 122633>>,
        <<122635, 122654>>, <<125184, 125251>>, <<127280, 127305>>, <<127312, 127337>>, <<127344, 127369>>
    }

\* case-ignorable characters, as <<first, last>>
CaseIgnorableRanges ==
    {
        <<39, 39>>, <<46, 46>>, <<58, 58>>, <<94, 94>>, <<96, 96>>, <<168, 168>>,
        <<173, 173>>, <<175, 175>>, <<180, 180>>, <<183, 184>>, <<688, 879>>, <<884, 885>>,
        <<890, 890>>, <<900, 901>>, <<903, 903>>, <<1155, 1161>>, <<1369, 1369>>, <<1375, 1375>>,
        <<1425, 1469>>, <<1471, 1471>>, <<1473, 1474>>, <<1476, 1477>>, <<1479, 1479>>, <<1524, 1524>>,
        <<1536, 1541>>, <<1552, 1562>>, <<1564, 1564>>, <<1600, 1600>>, <<1611, 1631>>, <<1648, 1648>>,
        <<1750, 1757>>, <<1759, 1768>>, <<1770, 1773>>, <<1807, 1807>>, <<1809, 1809>>, <<1840, 1866>>,
        <<1958, 1968>>, <<2027, 2037>>, <<2042, 2042>>, <<2045, 2045>>, <<2070, 2093>>, <<2137, 2139>>,
        <<2184, 2184>>, <<2192, 2193>>, <<2200, 2207>>, <<2249, 2306>>, <<2362, 2362>>, <<2364, 2364>>,
        <<2369, 2376>>, <<2381, 2381>>, <<2385, 2391>>, <<2402, 2403>>, <<2417, 2417>>, <<2433, 2433>>,
        <<2492, 2492>>, <<2497, 2500>>, <<2509, 2509>>, <<2530, 2531>>, <<2558, 2558>>, <<2561, 2562>>,
        <<2620, 2620>>, <<2625, 2626>>, <<2631, 2632>>, <<2635, 2637>>, <<2641, 2641>>, <<2672, 2673>>,
        <<2677, 2677>>, <<2689, 2690>>, <<2748, 2748>>, <<2753, 2757>>, <<2759, 2760>>, <<2765, 2765>>,
        <<2786, 2787>>, <<2810, 2815>>, <<2817, 2817>>, <<2876, 2876>>, <<2879, 2879>>, <<2881, 2884>>,
        <<2893, 2893>>, <<2901, 2902>>, <<2914, 2915>>, <<2946, 2946>>, <<3008, 3008>>, <<3021, 3021>>,
        <<3072, 3072>>, <<3076, 3076>>, <<3132, 3132>>, <<3134, 3136>>, <<3142, 3144>>, <<3146, 3149>>,
        <<3157, 3158>>, <<3170, 3171>>, <<3201, 3201>>, <<3260, 3260>>, <<3263, 3263>>, <<3270, 3270>>,
        <<3276, 3277>>, <<3298, 3299>>, <<3328, 3329>>, <<3387, 3388>>, <<3393, 3396>>, <<3405, 3405>>,
        <<3426, 3427>>, <<3457, 3457>>, <<3530, 3530>>, <<3538, 3540>>, <<3542, 3542>>, <<3633, 3633>>,
        <<3636, 3642>>, <<3654, 3662>>, <<3761, 3761>>, <<3764, 3772>>, <<3782, 3782>>, <<3784, 3789>>,
        <<3864, 3865>>, <<3893, 3893>>, <<3895, 3895>>, <<3897, 3897>>, <<3953, 3966>>, <<3968, 3972>>,
        <<3974, 3975>>, <<3981, 3991>>, <<3993, 4028>>, <<4038, 4038>>, <<4141, 4144>>, <<4146, 4151>>,
        <<4153, 4154>>, <<4157, 4158>>, <<4184, 4185>>, <<4190, 4192>>, <<4209, 4212>>, <<4226, 4226>>,
        <<4229, 4230>>, <<4237, 4237>>, <<4253, 4253>>, <<4348, 4348>>, <<4957, 4959>>, <<5906, 5908>>,
        <<5938, 5939>>, <<5970, 5971>>, <<6002, 6003>>, <<6068, 6069>>, <<6071, 6077>>, <<6086, 6086>>,
        <<6089, 6099>>, <<6103, 6103>>, <<6109, 6109>>, <<6155, 6159>>, <<6211, 6211>>, <<6277, 6278>>,
        <<6313, 6313>>, <<6432, 6434>>, <<6439, 6440>>, <<6450, 6450>>, <<6457, 6459>>, <<6679, 6680>>,
        <<6683, 6683>>, <<6742, 6742>>, <<6744, 6750>>, <<6752, 6752>>, <<6754, 6754>>, <<6757, 6764>>,
        <<6771, 6780>>, <<6783, 6783>>, <<6823, 6823>>, <<6832, 6862>>, <<6912, 6915>>, <<6964, 6964>>,
        <<6966, 6970>>, <<6972, 6972>>, <<6978, 6978>>, <<7019, 7027>>, <<7040, 7041>>, <<7074, 7077>>,
        <<7080, 7081>>, <<7083, 7085>>, <<7142, 7142>>, <<7144, 7145>>, <<7149, 7149>>, <<7151, 7153>>,
        <<7212, 7219>>, <<7222, 7223>>, <<7288, 7293>>, <<7376, 7378>>, <<7380, 7392>>, <<7394, 7400>>,
        <<7405, 7405>>, <<7412, 7412>>, <<7416, 7417>>, <<7468, 7530>>, <<7544, 7544>>, <<7579, 7679>>,
        <<8125, 8125>>, <<8127, 8129>>, <<8141, 8143>>, <<8157, 8159>>, <<8173, 8175>>, <<8189, 8190>>,
        <<8203, 8207>>, <<8216, 8217>>, <<8228, 8228>>, <<8231, 8231>>, <<8234, 8238>>, <<8288, 8292>>,
        <<8294, 8303>>, <<8305, 8305>>, <<8319, 8319>>, <<8336, 8348>>, <<8400, 8432>>, <<11388, 11389>>,
        <<11503, 11505>>, <<11631, 11631>>, <<11647, 11647>>, <<11744, 11775>>, <<11823, 11823>>, <<12293, 12293>>,
        <<12330, 12333>>, <<12337, 12341>>, <<12347, 12347>>, <<12441, 12446>>, <<12540, 12542>>, <<40981, 40981>>,
        <<42232, 42237>>, <<42508, 42508>>, <<42607, 42610>>, <<42612, 42621>>, <<42623, 42623>>, <<42652, 42655>>,
        <<42736, 42737>>, <<42752, 42785>>, <<42864, 42864>>, <<42888, 42890>>, <<42994, 42996>>, <<43000, 43001>>,
        <<43010, 43010>>, <<43014, 43014>>, <<43019, 43019>>, <<43045, 43046>>, <<43052, 43052>>, <<43204, 43205>>,
        <<43232, 43249>>, <<43263, 43263>>, <<43302, 43309>>, <<43335, 43345>>, <<43392, 43394>>, <<43443, 43443>>,
        <<43446, 43449>>, <<43452, 43453>>, <<43471, 43471>>, <<43493, 43494>>, <<43561, 43566>>, <<43569, 43570>>,
        <<43573, 43574>>, <<43587, 43587>>, <<43596, 43596>>, <<43632, 43632>>, <<43644, 43644>>, <<43696, 43696>>,
        <<43698, 43700>>, <<43703, 43704>>, <<43710, 43711>>, <<43713, 43713>>, <<43741, 43741>>, <<43756, 43757>>,
        <<43763, 43764>>, <<43766, 43766>>, <<43867, 43871>>, <<43881, 43883>>, <<44005, 44005>>, <<44008, 44008>>,
        <<44013, 44013>>, <<64286, 64286>>, <<64434, 64450>>, <<65024, 65039>>, <<65043, 65043>>, <<65056, 65071>>,
        <<65106, 65106>>, <<65109, 65109>>, <<65279, 65279>>, <<65287, 65287>>, <<65294, 65294>>, <<65306, 65306>>,
        <<65342, 65342>>, <<65344, 65344>>, <<65392, 65392>>, <<65438, 65439>>, <<65507, 65507>>, <<65529, 65531>>,
        <<66045, 66045>>, <<66272, 66272>>, <<66422, 66426>>, <<67456, 67461>>, <<67463, 67504>>, <<67506, 67514>>,
        <<68097, 68099>>, <<68101, 68102>>, <<68108, 68111>>, <<68152, 68154>>, <<68159, 68159>>, <<68325, 68326>>,
        <<68900, 68903>>, <<69291, 69292>>, <<69446, 69456>>, <<69506, 69509>>, <<69633, 69633>>, <<69688, 69702>>,
        <<69744, 69744>>, <<69747, 69748>>, <<69759, 69761>>, <<69811, 69814>>, <<69817, 69818>>, <<69821, 69821>>,
        <<69826, 69826>>, <<69837, 69837>>, <<69888, 69890>>, <<69927, 69931>>, <<69933, 69940>>, <<70003, 70003>>,
        <<70016, 70017>>, <<70070, 70078>>, <<70089, 70092>>, <<70095, 70095>>, <<70191, 70193>>, <<70196, 70196>>,
        <<70198, 70199>>, <<70206, 70206>>, <<70367, 70367>>, <<70371, 70378>>, <<70400, 70401>>, <<70459, 70460>>,
        <<70464, 70464>>, <<70502, 70508>>, <<70512, 70516>>, <<70712, 70719>>, <<70722, 70724>>, <<70726, 70726>>,
        <<70750, 70750>>, <<70835, 70840>>, <<70842, 70842>>, <<70847, 70848>>, <<70850, 70851>>, <<71090, 71093>>,
        <<71100, 71101>>, <<71103, 71104>>, <<71132, 71133>>, <<71219, 71226>>, <<71229, 71229>>, <<71231, 71232>>,
        <<71339, 71339>>, <<71341, 71341>>, <<71344, 71349>>, <<71351, 71351>>, <<71453, 71455>>, <<71458, 71461>>,
        <<71463, 71467>>, <<71727, 71735>>, <<71737, 71738>>, <<71995, 71996>>, <<71998, 71998>>, <<72003, 72003>>,
        <<72148, 72151>>, <<72154, 72155>>, <<72160, 72160>>, <<72193, 72202>>, <<72243, 72248>>, <<72251, 72254>>,
        <<72263, 72263>>, <<72273, 72278>>, <<72281, 72283>>, <<72330, 72342>>, <<72344, 72345>>, <<72752, 72758>>,
        <<72760, 72765>>, <<72767, 72767>>, <<72850, 72871>>, <<72874, 72880>>, <<72882, 72883>>, <<72885, 72886>>,
        <<73009, 73014>>, <<73018, 73018>>, <<73020, 73021>>, <<73023, 73029>>, <<73031, 73031>>, <<73104, 73105>>,
        <<73109, 73109>>, <<73111, 73111>>, <<73459, 73460>>, <<78896, 78904>>, <<92912, 92916>>, <<92976, 92982>>,
        <<92992, 92995>>, <<94031, 94031>>, <<94095, 94111>>, <<94176, 94177>>, <<94179, 94180>>, <<110576, 110579>>,
        <<110581, 110587>>, <<110589, 110590>>, <<113821, 113822>>, <<113824, 113827>>, <<118528, 118573>>, <<118576, 118598>>,
        <<119143, 119145>>, <<119155, 119170>>, <<119173, 119179>>, <<119210, 119213>>, <<119362, 119364>>, <<121344, 121398>>,
        <<121403, 121452>>, <<121461, 121461>>, <<121476, 121476>>, <<121499, 121503>>, <<121505, 121519>>, <<122880, 122886>>,
        <<122888, 122904>>, <<122907, 122913>>, <<122915, 122916>>, <<122918, 122922>>, <<123184, 123197>>, <<123566, 123566>>,
        <<123628, 123631>>, <<125136, 125142>>, <<125252, 125259>>, <<127995, 127999>>, <<917505, 917505>>, <<917536, 917631>>,
        <<917760, 917999>>
    }

InRanges(c, rs) == \E r \in rs : r[1] <= c /\ c <= r[2]

IsCaseIgnorable(c) == InRanges(c, CaseIgnorableRanges)

\* asked only of a character that is not case-ignorable
IsCased(c) == InRanges(c, CasedRanges)

\* the Final_Sigma context of the capital sigma at s[i]: the nearest
\* character before it that is not case-ignorable is cased, and the nearest
\* such character after it, if any, is not
final_sigma(s, i) ==
    LET before == {j \in 1..(i - 1) : ~IsCaseIgnorable(s[j])}
        after == {j \in (i + 1)..Len(s) : ~IsCaseIgnorable(s[j])}
    IN /\ before # {}
       /\ IsCased(s[CHOOSE j \in before : \A k \in before : k <= j])
       /\ \/ after = {}
          \/ ~IsCased(s[CHOOSE j \in after : \A k \in after : j <= k])

\* str.lower() on one character outside ASCII that lowers to one character
LowerChar(c) ==
    LET rs == {r \in LowerRanges :
                  r[1] <= c /\ c <= r[2] /\ (c - r[1]) % r[3] = 0}
    IN IF rs = {} THEN c ELSE c + (CHOOSE r \in rs : TRUE)[4]

\* what str.lower() puts in the place of s[i]: U+0130 lowers to two
\* characters, the capital sigma U+03A3 by its context
lower_at(s, i) ==
    LET c == s[i] IN
    IF c < 128 THEN <<IF 65 <= c /\ c <= 90 THEN c + 32 ELSE c>>
    ELSE IF c = 304 THEN <<105, 775>>
    ELSE IF c = 931 THEN <<IF final_sigma(s, i) THEN 962 ELSE 963>>
    ELSE <<LowerChar(c)>>

RECURSIVE lower_from(_, _)
lower_from(s, i) ==
    IF i > Len(s) THEN <<>> ELSE lower_at(s, i) \o lower_from(s, i + 1)

\* text.lower()
lower(s) ==
    IF \A i \in 1..Len(s) : s[i] # 304
    THEN [i \in 1..Len(s) |-> lower_at(s, i)[1]]
    ELSE lower_from(s, 1)

RECURSIVE lstrip(_)
lstrip(s) == IF s # <<>> /\ Head(s) \in Whitespace THEN lstrip(Tail(s)) ELSE s

RECURSIVE rstrip(_)
rstrip(s) ==
    IF s # <<>> /\ s[Len(s)] \in Whitespace
    THEN rstrip(SubSeq(s, 1, Len(s) - 1)) ELSE s

\* text.strip()
strip(s) == rstrip(lstrip(s))

NotComma(c) == c # 44

\* text.replace(',', '')
replace_commas(s) == SelectSeq(s, NotComma)

IsKept(c) == c >= 0

\* re.sub(r'\s+', ' ', text): every maximal run of whitespace becomes one
\* space: its first character is replaced by a space, the others go
re_sub_spaces(s) ==
    SelectSeq([i \in 1..Len(s) |->
                  IF s[i] \notin Whitespace THEN s[i]
                  ELSE IF i > 1 /\ s[i - 1] \in Whitespace THEN -1 ELSE 32],
              IsKept)

\* the length of the whitespace-free word that starts t
FirstWordLen(t) ==
    LET ws == {j \in 1..Len(t) : t[j] \in Whitespace}
    IN IF ws = {} THEN Len(t)
       ELSE (CHOOSE j \in ws : \A k \in ws : j <= k) - 1

\* str.split(): the words between runs of whitespace, no empty words
RECURSIVE split(_)
split(s) ==
    LET t == lstrip(s) IN
    IF t = <<>> THEN <<>>
    ELSE LET n == FirstWordLen(t)
         IN <<SubSeq(t, 1, n)>> \o split(SubSeq(t, n + 1, Len(t)))

\* startswith without the length test: a string shorter than the prefix
\* matches when it agrees with the prefix as far as it goes
startswith_no_length(s, prefix) ==
    \A i \in 1..(IF Len(s) < Len(prefix) THEN Len(s) ELSE Len(prefix)) :
        s[i] = prefix[i]

\* str.startswith(prefix)
startswith(s, prefix) ==
    Len(s) >= Len(prefix) /\ SubSeq(s, 1, Len(prefix)) = prefix

\* str(n) for an integer n, as an f-string renders it
RECURSIVE NatToStr(_)
NatToStr(n) ==
    IF n < 10 THEN <<48 + n>>
    ELSE NatToStr(n \div 10) \o <<48 + (n % 10)>>

IntToStr(n) == IF n < 0 THEN <<45>> \o NatToStr(-n) ELSE NatToStr(n)

\* sys.get_int_max_str_digits(): int() raises ValueError for a string of
\* more decimal digits (CPython 3.11 default)
INT_MAX_STR_DIGITS == 4300

\* decimal digits, single underscores allowed between two digits
IsDigitsBody(s) ==
    /\ s # <<>>
    /\ IsDigit(s[1])
    /\ IsDigit(s[Len(s)])
    /\ \A i \in 1..Len(s) : IsDigit(s[i]) \/ s[i] = 95
    /\ \A i \in 1..(Len(s) - 1) : ~(s[i] = 95 /\ s[i + 1] = 95)

\* s without its sign
Unsigned(s) == IF s # <<>> /\ Head(s) \in {43, 45} THEN Tail(s) ELSE s

\* int(num_str) raises ValueError exactly when this is FALSE: it accepts an
\* optional sign and then a body of at most INT_MAX_STR_DIGITS digits.  (It
\* also strips whitespace, of which a word of split() has none.)
int_parses(s) ==
    /\ IsDigitsBody(Unsigned(s))
    /\ Len(SelectSeq(s, IsDigit)) <= INT_MAX_STR_DIGITS

RECURSIVE DigitsValue(_)
DigitsValue(s) ==
    IF s = <<>> THEN 0
    ELSE DigitsValue(SubSeq(s, 1, Len(s) - 1)) * 10 + DigitVal(s[Len(s)])

\* int(num_str) when it parses: the exact value, as its decimal numeral.
\* The digits are read by their values, the underscores and leading zeros
\* go, and the sign stays on a value below zero.
int(s) ==
    LET ds == SelectSeq(Unsigned(s), IsDigit)
        n == Len(ds)
        zero == \A i \in 1..n : DigitVal(ds[i]) = 0
        first == CHOOSE i \in 1..n :
                     /\ DigitVal(ds[i]) # 0
                     /\ \A k \in 1..(i - 1) : DigitVal(ds[k]) = 0
    IN IF zero THEN <<48>>
       ELSE (IF Head(s) = 45 THEN <<45>> ELSE <<>>)
            \o [i \in 1..(n - first + 1) |-> 48 + DigitVal(ds[first + i - 1])]

\* the int num is below zero
int_negative(num) == Head(num) = 45

\* the int num has at most nine digits: its magnitude is below 10^9
int_small(num) == Len(Unsigned(num)) <= 9

\* a small int as a number
int_value(num) ==
    IF int_negative(num) THEN -DigitsValue(Unsigned(num))
    ELSE DigitsValue(num)

\* num <= k, num >= k and num == k for a literal k of the code: an int that
\* is not small is below k when negative and above k otherwise
int_le(num, k) ==
    IF int_small(num) THEN int_value(num) <= k ELSE int_negative(num)

int_ge(num, k) ==
    IF int_small(num) THEN int_value(num) >= k ELSE ~int_negative(num)

int_eq(num, k) == int_small(num) /\ int_value(num) = k

(***************************************************************************)
(* Python values.                                                          *)
(***************************************************************************)
Str(s) == [type |-> "str", val |-> s]
NonStr == [type |-> "NoneType", val |-> <<>>]

NoneDate == [y |-> 0, m |-> 0, d |-> 0]
Date(y, m, d) == [y |-> y, m |-> m, d |-> d]

\* isinstance(x, date)
IsDate(dt) == dt.y >= 1

(***************************************************************************)
(* Configuration.                                                          *)
(***************************************************************************)
ANCHOR_DATE == Date(2025, 3, 12)
ANCHOR_DAY_NUM == 3

SPECIAL_BLUE_START_DATE == Date(2025, 4, 7)
SPECIAL_BLUE_END_DATE == Date(2025, 5, 2)

\* a missing dict entry (dict.get without a default) and a None shift_type
PyNone == "None"

\* d.get(k): d is a TLA+ function standing for the dict
dict_get(d, k) == IF k \in DOMAIN d THEN d[k] ELSE PyNone

\* the words the rules compare against, as str values
w_1 == <<49>>  \* "1"
w_2 == <<50>>  \* "2"
w_3 == <<51>>  \* "3"
w_1_1 == <<49, 45, 49>>  \* "1-1"
w_1_2 == <<49, 45, 50>>  \* "1-2"
w_2_1 == <<50, 45, 49>>  \* "2-1"
w_2_2 == <<50, 45, 50>>  \* "2-2"
w_3_1 == <<51, 45, 49>>  \* "3-1"
w_3_2 == <<51, 45, 50>>  \* "3-2"
w_md == <<109, 100>>  \* "md"
w_app == <<97, 112, 112>>  \* "app"
w_gold == <<103, 111, 108, 100>>  \* "gold"
w_silver == <<115, 105, 108, 118, 101, 114>>  \* "silver"
w_blue == <<98, 108, 117, 101>>  \* "blue"
w_yellow == <<121, 101, 108, 108, 111, 119>>  \* "yellow"
w_purple == <<112, 117, 114, 112, 108, 101>>  \* "purple"
w_bronze == <<98, 114, 111, 110, 122, 101>>  \* "bronze"
w_green == <<103, 114, 101, 101, 110>>  \* "green"
w_gray == <<103, 114, 97, 121>>  \* "gray"
w_mist == <<109, 105, 115, 116>>  \* "mist"
w_scu == <<115, 99, 117>>  \* "scu"
w_transplant == <<116, 114, 97, 110, 115, 112, 108, 97, 110, 116>>  \* "transplant"
SP == <<32>>  \* " "

\* GOLD_ROTATION with the day-4 entry of Gold 5 left out
GOLD_ROTATION_incomplete ==
    (2 :> <<"Early", "Middle", "Late", "Middle">>) @@
    (3 :> <<"Middle", "Late", "Middle", "Early">>) @@
    (4 :> <<"Late", "Middle", "Early", "Middle">>) @@
    (5 :> <<"Middle", "Early", "Middle">>)

GOLD_ROTATION ==
    (2 :> <<"Early", "Middle", "Late", "Middle">>) @@
    (3 :> <<"Middle", "Late", "Middle", "Early">>) @@
    (4 :> <<"Late", "Middle", "Early", "Middle">>) @@
    (5 :> <<"Middle", "Early", "Middle", "Late">>)

YPBB_SUFFIX_ROTATION ==
    (w_1_1 :> <<"Early", "Middle", "Late", "Middle">>) @@
    (w_1_2 :> <<"Middle", "Late", "Middle", "Early">>) @@
    (w_2_1 :> <<"Late", "Middle", "Early", "Middle">>) @@
    (w_2_2 :> <<"Middle", "Early", "Middle", "Late">>) @@
    (w_3 :> <<"Middle", "Early", "Middle", "Late">>)

GREEN_SUFFIX_ROTATION ==
    (w_1 :> <<"Early", "Middle", "Late", "Middle">>) @@
    (w_2 :> <<"Middle", "Late", "Middle", "Early">>) @@
    (w_3 :> <<"Late", "Middle", "Early", "Middle">>)

MIST_SCU_ROTATION == <<"Middle", "Early", "Middle", "Late">>

GRAY_MIST_EARLY_ON_1_3 ==
    {w_gray \o SP \o w_1 \o SP \o w_md, w_mist \o SP \o w_transplant}
GRAY_MIST_MIDDLE_ON_1_3 ==
    {w_gray \o SP \o w_2 \o SP \o w_md, w_gray \o SP \o w_3 \o SP \o w_app}
ALL_GRAY_MIST_ROLES == GRAY_MIST_EARLY_ON_1_3 \cup GRAY_MIST_MIDDLE_ON_1_3

(***************************************************************************)
(* Helper functions.                                                       *)
(***************************************************************************)
\* clean_input(text): "" for a non-string; otherwise strip, lower, drop the
\* commas, then collapse the whitespace runs, in that order
clean_input(text) ==
    IF text.type # "str" THEN <<>>
    ELSE re_sub_spaces(replace_commas(lower(strip(text.val))))

(***************************************************************************)
(* datetime.date arithmetic: date.toordinal() and date comparison.         *)
(***************************************************************************)
is_leap(y) == y % 4 = 0 /\ (y % 100 # 0 \/ y % 400 = 0)

days_in_month(y, m) ==
    IF m = 2 THEN (IF is_leap(y) THEN 29 ELSE 28)
    ELSE IF m \in {4, 6, 9, 11} THEN 30 ELSE 31

RECURSIVE days_before_month(_, _)
days_before_month(y, m) ==
    IF m = 1 THEN 0 ELSE days_before_month(y, m - 1) + days_in_month(y, m - 1)

days_before_year(y) ==
    LET p == y - 1 IN p * 365 + (p \div 4) - (p \div 100) + (p \div 400)

toordinal(dt) == days_before_year(dt.y) + days_before_month(dt.y, dt.m) + dt.d

\* a <= b on dates
date_le(a, b) ==
    \/ a.y < b.y
    \/ a.y = b.y /\ a.m < b.m
    \/ a.y = b.y /\ a.m = b.m /\ a.d <= b.d

(***************************************************************************)
(* Core calculation functions.                                             *)
(***************************************************************************)
\* get_day_number raises TypeError exactly when this holds
get_day_number_raises(dt) == ~IsDate(dt)

\* get_day_number with a truncating remainder (the sign of the dividend)
get_day_number_truncated(dt) ==
    LET delta_days == toordinal(dt) - toordinal(ANCHOR_DATE)
        n == delta_days + ANCHOR_DAY_NUM - 1
    IN (IF n >= 0 THEN n % 4 ELSE -((-n) % 4)) + 1

\* get_day_number without the "- 1" that makes the anchor its own day number
get_day_number_no_offset(dt) ==
    LET delta_days == toordinal(dt) - toordinal(ANCHOR_DATE)
    IN ((delta_days + ANCHOR_DAY_NUM) % 4) + 1

\* get_day_number(target_dt) for a date; Python's % is the floored modulo
get_day_number(dt) ==
    LET delta_days == toordinal(dt) - toordinal(ANCHOR_DATE)
    IN ((delta_days + ANCHOR_DAY_NUM - 1) % 4) + 1

\* values leaving get_shift_type_or_info
Ret(head, tail, args) ==
    [kind |-> "return", head |-> head, tail |-> tail, args |-> args]
RetNone == [kind |-> "None", head |-> "", tail |-> "", args |-> <<>>]
Raise(exc, msg) == [kind |-> "raise", head |-> exc, tail |-> msg, args |-> <<>>]
NotCalled == [kind |-> "pending", head |-> "", tail |-> "", args |-> <<>>]

MD_FIXED == ", MD is fixed 8 am - 5 pm (4 pm weekends/holidays)"

format_md_app_output(shift_type) ==
    Ret(shift_type, " for APP/TML" \o MD_FIXED, <<>>)

format_md_app_green_output(shift_type) ==
    Ret(shift_type, " for APP" \o MD_FIXED, <<>>)

format_md_app_mist_scu_output(shift_type) ==
    Ret(shift_type, " for MIST SCU" \o MD_FIXED, <<>>)

\* gray_mist_roles with the two role sets' timings exchanged
gray_mist_roles_swapped(clean, dn) ==
    LET shift_type ==
            IF clean \in GRAY_MIST_EARLY_ON_1_3
            THEN (IF dn \in {1, 3} THEN "Middle"
                  ELSE IF dn \in {2, 4} THEN "Early" ELSE PyNone)
            ELSE IF clean \in GRAY_MIST_MIDDLE_ON_1_3
            THEN (IF dn \in {1, 3} THEN "Early"
                  ELSE IF dn \in {2, 4} THEN "Middle" ELSE PyNone)
            ELSE PyNone
    IN IF shift_type # PyNone
       THEN Ret(shift_type, "", <<>>)
       ELSE Ret("Internal Error:",
                " Missing Gray/MIST Transplant rule for '{}' Day {}.",
                <<clean, IntToStr(dn)>>)

\* lines 103-120: the exact multi-word roles (Gray n MD/APP, MIST Transplant)
gray_mist_roles(clean, dn) ==
    LET shift_type ==
            IF clean \in GRAY_MIST_EARLY_ON_1_3
            THEN (IF dn \in {1, 3} THEN "Early"
                  ELSE IF dn \in {2, 4} THEN "Middle" ELSE PyNone)
            ELSE IF clean \in GRAY_MIST_MIDDLE_ON_1_3
            THEN (IF dn \in {1, 3} THEN "Middle"
                  ELSE IF dn \in {2, 4} THEN "Early" ELSE PyNone)
            ELSE PyNone
    IN IF shift_type # PyNone
       THEN Ret(shift_type, "", <<>>)
       ELSE Ret("Internal Error:",
                " Missing Gray/MIST Transplant rule for '{}' Day {}.",
                <<clean, IntToStr(dn)>>)

\* lines 122-129: "mist scu" followed by anything
mist_scu(dn) ==
    LET shift_type == dict_get(MIST_SCU_ROTATION, dn)
    IN IF shift_type # PyNone
       THEN format_md_app_mist_scu_output(shift_type)
       ELSE Ret("Internal Error:", " Missing MIST SCU Day {} rule.",
                <<IntToStr(dn)>>)

\* lines 136-138: a trailing md/app word is dropped when another word precedes it
drop_role(parts) ==
    IF Len(parts) > 1 /\ parts[Len(parts)] \in {w_md, w_app}
    THEN SubSeq(parts, 1, Len(parts) - 1)
    ELSE parts

\* lines 140-150: the second remaining word, "" when there is none
second_part(core_parts) ==
    IF Len(core_parts) > 1 THEN core_parts[2] ELSE <<>>

\* lines 155-167
gold(raw, num_str, dn) ==
    IF num_str = <<>>
    THEN Ret("Error:", " Shift '{}' needs a number (e.g., Gold 3).", <<raw>>)
    ELSE IF ~int_parses(num_str)
    THEN Ret("Error:", " Invalid number '{}' in Gold shift '{}'.",
             <<num_str, raw>>)
    ELSE LET num == int(num_str) IN
         IF int_le(num, 0)
         THEN Ret("Error:", " Gold shift number in '{}' must be positive.",
                  <<raw>>)
         ELSE IF int_eq(num, 1) THEN Ret("Early", "", <<>>)
         ELSE IF int_ge(num, 6) THEN Ret("Middle", "", <<>>)
         ELSE IF int_ge(num, 2) /\ int_le(num, 5)
         THEN (IF int_value(num) \in DOMAIN GOLD_ROTATION
                  /\ dn \in DOMAIN GOLD_ROTATION[int_value(num)]
               THEN Ret(GOLD_ROTATION[int_value(num)][dn], "", <<>>)
               ELSE Ret("Internal Error:", " Missing Gold {} Day {} rule.",
                        <<num, IntToStr(dn)>>))
         ELSE Ret("Error:", " Invalid Gold shift number {}.", <<num>>)

\* lines 170-182: a word that is no number leaves the default count 1
silver(raw, num_str) ==
    LET num == IF num_str # <<>> /\ int_parses(num_str) THEN int(num_str)
               ELSE IntToStr(1)
    IN IF int_le(num, 0)
       THEN Ret("Error:", " Silver shift number in '{}' must be positive.",
                <<raw>>)
       ELSE IF int_eq(num, 1) THEN Ret("Early", "", <<>>)
       ELSE Ret("Middle", "", <<>>)

\* the special period with its two end dates left out
in_special_blue_period_exclusive(dt) ==
    /\ date_le(SPECIAL_BLUE_START_DATE, dt) /\ dt # SPECIAL_BLUE_START_DATE
    /\ date_le(dt, SPECIAL_BLUE_END_DATE) /\ dt # SPECIAL_BLUE_END_DATE

\* line 191
in_special_blue_period(dt) ==
    date_le(SPECIAL_BLUE_START_DATE, dt) /\ date_le(dt, SPECIAL_BLUE_END_DATE)

\* lines 192-207
special_blue(suffix, dn) ==
    IF suffix \notin {w_1, w_3_1, w_3_2}
    THEN Ret("Error:",
             " Invalid suffix '{}' for Blue shift during 2025-04-07 to 2025-05-02. Use 1, 3-1, or 3-2.",
             <<suffix>>)
    ELSE LET shift_type ==
                 IF suffix = w_1
                 THEN (IF dn \in {1, 3} THEN "Early"
                       ELSE IF dn \in {2, 4} THEN "Middle" ELSE PyNone)
                 ELSE (IF dn \in {1, 3} THEN "Middle"
                       ELSE IF dn \in {2, 4} THEN "Early" ELSE PyNone)
         IN IF shift_type # PyNone
            THEN format_md_app_output(shift_type)
            ELSE Ret("Internal Error:", " Missing Special Blue {} Day {} rule.",
                     <<suffix, IntToStr(dn)>>)

\* standard_blue looking the suffix up in the Green table
standard_blue_green_table(suffix, dn) ==
    IF suffix \notin DOMAIN GREEN_SUFFIX_ROTATION
    THEN Ret("Error:",
             " Invalid suffix '{}' for Blue shift (standard period). Use 1-1, 1-2, 2-1, 2-2, or 3.",
             <<suffix>>)
    ELSE LET shift_type == dict_get(GREEN_SUFFIX_ROTATION[suffix], dn)
         IN IF shift_type # PyNone
            THEN format_md_app_output(shift_type)
            ELSE Ret("Internal Error:",
                     " Missing Blue {} Day {} rule (standard period).",
                     <<suffix, IntToStr(dn)>>)

\* lines 210-217
standard_blue(suffix, dn) ==
    IF suffix \notin DOMAIN YPBB_SUFFIX_ROTATION
    THEN Ret("Error:",
             " Invalid suffix '{}' for Blue shift (standard period). Use 1-1, 1-2, 2-1, 2-2, or 3.",
             <<suffix>>)
    ELSE LET shift_type == dict_get(YPBB_SUFFIX_ROTATION[suffix], dn)
         IN IF shift_type # PyNone
            THEN format_md_app_output(shift_type)
            ELSE Ret("Internal Error:",
                     " Missing Blue {} Day {} rule (standard period).",
                     <<suffix, IntToStr(dn)>>)

\* lines 187-217
blue(raw, suffix, dn, dt) ==
    IF suffix = <<>>
    THEN Ret("Error:", " Blue shift '{}' needs a suffix.", <<raw>>)
    ELSE IF in_special_blue_period(dt) THEN special_blue(suffix, dn)
    ELSE standard_blue(suffix, dn)

\* str.upper() on one character, for the ASCII letters: the shift_name that
\* is capitalized is "yellow", "purple" or "bronze" (line 220)
UpperChar(c) == IF 97 <= c /\ c <= 122 THEN c - 32 ELSE c

\* shift_name.capitalize()
capitalize(s) ==
    IF s = <<>> THEN <<>> ELSE <<UpperChar(Head(s))>> \o lower(Tail(s))

\* lines 220-228: Yellow, Purple, Bronze
yellow_purple_bronze(raw, shift_name, suffix, dn) ==
    IF suffix = <<>>
    THEN Ret("Error:", " {} shift '{}' needs a suffix (e.g., 1-1, 2-2, 3).",
             <<capitalize(shift_name), raw>>)
    ELSE IF suffix \notin DOMAIN YPBB_SUFFIX_ROTATION
    THEN Ret("Error:",
             " Invalid suffix '{}' for {} shift. Use 1-1, 1-2, 2-1, 2-2, or 3.",
             <<suffix, capitalize(shift_name)>>)
    ELSE LET shift_type == dict_get(YPBB_SUFFIX_ROTATION[suffix], dn)
         IN IF shift_type # PyNone
            THEN format_md_app_output(shift_type)
            ELSE Ret("Internal Error:", " Missing {} {} Day {} rule.",
                     <<capitalize(shift_name), suffix, IntToStr(dn)>>)

\* lines 231-239
green(raw, suffix, dn) ==
    IF suffix = <<>>
    THEN Ret("Error:", " Green shift '{}' needs a suffix (1, 2, or 3).", <<raw>>)
    ELSE IF suffix \notin DOMAIN GREEN_SUFFIX_ROTATION
    THEN Ret("Error:", " Invalid suffix '{}' for Green shift. Use 1, 2, or 3.",
             <<suffix>>)
    ELSE LET shift_type == dict_get(GREEN_SUFFIX_ROTATION[suffix], dn)
         IN IF shift_type # PyNone
            THEN format_md_app_green_output(shift_type)
            ELSE Ret("Internal Error:", " Missing Green {} Day {} rule.",
                     <<suffix, IntToStr(dn)>>)

\* lines 131-247: the lines told apart by their first word.  parts[0] of an
\* empty list raises IndexError.
split_rules(raw, clean, dn, dt) ==
    LET parts == split(clean) IN
    IF parts = <<>> THEN Raise("IndexError", "list index out of range")
    ELSE LET shift_name == parts[1]
             num_str == second_part(drop_role(parts))
             suffix == num_str
         IN IF shift_name = w_gold THEN gold(raw, num_str, dn)
            ELSE IF shift_name = w_silver THEN silver(raw, num_str)
            ELSE IF shift_name = w_blue THEN blue(raw, suffix, dn, dt)
            ELSE IF shift_name \in {w_yellow, w_purple, w_bronze}
            THEN yellow_purple_bronze(raw, shift_name, suffix, dn)
            ELSE IF shift_name = w_green THEN green(raw, suffix, dn)
            ELSE IF shift_name = w_gray
            THEN Ret("Error:",
                     " Unknown Gray shift role '{}'. Use 'Gray 1 MD', 'Gray 2 MD', or 'Gray 3 APP'.",
                     <<raw>>)
            ELSE RetNone

\* get_shift_type_or_info(shift_str, day_num, target_dt)
get_shift_type_or_info(s, dn, dt) ==
    IF ~(1 <= dn /\ dn <= 4)
    THEN Ret("Error:", " Invalid Day Number calculated.", <<>>)
    ELSE IF ~IsDate(dt)
    THEN Ret("Error:", " Internal - Target date missing for shift calculation.",
             <<>>)
    ELSE LET clean == clean_input(s) IN
         IF clean = <<>>
         THEN Ret("Error:", " Shift name input cannot be empty.", <<>>)
         ELSE IF clean \in ALL_GRAY_MIST_ROLES THEN gray_mist_roles(clean, dn)
         ELSE IF startswith(clean, w_mist \o SP \o w_scu) THEN mist_scu(dn)
         ELSE split_rules(s.val, clean, dn, dt)

(***************************************************************************)
(* Streamlit user interface: what the button handler shows (lines 270-315) *)
(***************************************************************************)
Shown(box, text) == [box |-> box, text |-> text]
NothingShown == Shown("none", "")

\* lines 289-308: how a value returned by the resolver is rendered
render(res, raw, dt) ==
    IF res.kind = "None" THEN Shown("info", "refer to the most updated scheduling details")
    ELSE IF res.head = "Error:" THEN Shown("error", res.head \o res.tail)
    ELSE LET clean == clean_input(raw)
             is_special_blue ==
                 startswith(clean, w_blue) /\ in_special_blue_period(dt)
         IN IF is_special_blue
            THEN Shown("success", "Determined Shift Info (Special Blue Period)")
            ELSE IF clean \in ALL_GRAY_MIST_ROLES
            THEN Shown("success", "Determined Shift Info (Gray/MIST Tx Rotation)")
            ELSE Shown("success", "Determined Shift Info")

\* lines 310-315: an exception leaving the calculation is shown as an error
render_exception(res) ==
    IF res.head = "TypeError"
    THEN Shown("error", "An internal error occurred")
    ELSE Shown("error", "An unexpected error occurred during calculation")

(***************************************************************************)
(* Inputs.                                                                 *)
(***************************************************************************)
\* raw strings drawn character by character: a comma, whitespace (space,
\* newline, no-break space), letters of both cases and a digit
CharAlphabet == {44, 32, 10, 160, 97, 71, 49}

CharStrings == UNION {[1..k -> CharAlphabet] : k \in 0..MaxLen}

w_teal == <<116, 101, 97, 108>>  \* "teal"

LineNames ==
    {w_gold, w_silver, w_blue, w_yellow, w_purple, w_bronze, w_green, w_gray,
     w_mist, w_teal}

Keys ==
    {IntToStr(n) : n \in 0..MaxCount}
    \cup {<<>>, w_1_1, w_1_2, w_2_1, w_2_2, w_3_1, w_3_2}
    \cup {<<45, 49>>, <<43, 49>>, <<49, 95, 48>>, <<48, 54>>,
          <<49, 50>>, <<120>>}
    \cup {w_md, w_scu, w_transplant, w_scu \o <<120>>}

Quals == {<<>>, w_md, <<65, 80, 80>>}

\* the non-empty words of ws joined by sep
RECURSIVE Join(_, _)
Join(ws, sep) ==
    IF ws = <<>> THEN <<>>
    ELSE IF Head(ws) = <<>> THEN Join(Tail(ws), sep)
    ELSE IF Join(Tail(ws), sep) = <<>> THEN Head(ws)
    ELSE Head(ws) \o sep \o Join(Tail(ws), sep)

\* a line as a user types it: plainly ("gray 1 md"); capitalised, with commas
\* and runs of whitespace between the words and a trailing space
\* ("Gray, \t1, \tmd "); or after a leading comma (", gray 1 md")
Plain(ws) == Join(ws, SP)

Messy(ws) ==
    LET j == Join(ws, <<44, 32, 9>>)
    IN <<UpperChar(Head(j))>> \o Tail(j) \o SP

Led(ws) == <<44, 32>> \o Join(ws, SP)

Typed(ws) == {Plain(ws), Messy(ws), Led(ws)}

LineInputs ==
    UNION {Typed(<<n, k, q>>) : n \in LineNames, k \in Keys, q \in Quals}

\* c repeated n times
Rep(c, n) == [i \in 1..n |-> c]

\* counts at int()'s limit on the number of digits: "77...7" of exactly the
\* limit and of one digit more, the limit's digits after a leading zero, and
\* the limit's digits with an underscore among them
LongCounts ==
    {Rep(55, INT_MAX_STR_DIGITS),
     Rep(55, INT_MAX_STR_DIGITS + 1),
     <<48>> \o Rep(55, INT_MAX_STR_DIGITS),
     <<55, 95>> \o Rep(55, INT_MAX_STR_DIGITS - 1)}

LongInputs ==
    {Plain(<<n, k, q>>) : n \in {w_gold, w_silver}, k \in LongCounts,
                          q \in {<<>>, w_md}}

\* lines typed with characters outside ASCII
UnicodeInputs ==
    {w_gold \o <<160, 53>>,              \* "gold" NO-BREAK SPACE "5"
     w_gold \o <<10, 53>>,               \* "gold\n5"
     w_gold \o <<12288, 8232, 54, 133>>, \* "gold" U+3000 U+2028 "6" U+0085
     w_gold \o <<32, 65301>>,            \* "gold " FULLWIDTH DIGIT FIVE
     w_gold \o <<32, 1633, 1776>>,       \* "gold " ARABIC-INDIC 1, EXT. 0
     w_silver \o <<32, 2408>>,           \* "silver " DEVANAGARI DIGIT TWO
     w_gold \o <<32, 178>>,              \* "gold " SUPERSCRIPT TWO
     w_gray \o <<32, 49, 10>> \o w_md,   \* "gray 1\nmd"
     w_mist \o <<8195>> \o w_scu,        \* "mist" EM SPACE "scu"
     w_mist \o <<8203>> \o w_scu,        \* "mist" ZERO WIDTH SPACE "scu"
     <<201>>,                            \* E ACUTE
     w_blue \o <<32, 192>>,              \* "blue " A GRAVE
     <<71, 927, 76, 68, 32, 53>>,        \* "G" OMICRON "LD 5"
     <<8490, 32, 49>>,                   \* KELVIN SIGN " 1"
     <<304>>,                            \* I WITH DOT ABOVE
     <<304, 83, 304>>,
     <<908, 931, 927, 931>>,             \* sigma within and ending a word
     <<931>>,                            \* sigma alone
     <<65, 931, 46, 32, 931, 66>>,       \* "A" sigma ". " sigma "B"
     <<65, 46, 931, 39, 98>>,            \* "A." sigma "'b"
     <<66560, 120792>>}                  \* DESERET LONG I, MATH BOLD 0

\* dates around the ends of the special Blue period
ProbeDates ==
    {Date(2025, 4, 6), SPECIAL_BLUE_START_DATE, SPECIAL_BLUE_END_DATE,
     Date(2025, 5, 3)}

\* every date of the years around the anchor's
Calendar ==
    {dt \in {Date(y, m, d) :
                y \in (ANCHOR_DATE.y - YearsBack)..(ANCHOR_DATE.y + YearsFwd),
                m \in 1..12, d \in 1..31} :
        dt.d <= days_in_month(dt.y, dt.m)}

\* the lines looked up over the whole calendar
CalendarInputs ==
    {Messy(<<w_blue, w_1>>), Plain(<<w_blue, w_1_1>>),
     Messy(<<w_gold, <<53>>>>), <<>>}

\* day numbers handed to the resolver: the valid ones and one on either side
DayNumArgs == 0..5

(***************************************************************************)
(* State machine.  A state holds the arguments of one request (the text    *)
(* and date widgets' values, and the day number for a direct call of the   *)
(* resolver), and, once an operation ran, what it produced.                *)
(***************************************************************************)
Init ==
    /\ \/ /\ shift_str \in {Str(s) : s \in CharStrings} \cup {NonStr}
          /\ target_dt = SPECIAL_BLUE_START_DATE
          /\ day_num \in DayNumArgs
       \/ /\ shift_str \in {Str(s) : s \in LineInputs}
          /\ target_dt \in ProbeDates
          /\ day_num \in 1..4
       \/ /\ shift_str \in {Str(s) : s \in UnicodeInputs \cup LongInputs}
          /\ target_dt = Date(2025, 5, 3)
          /\ day_num \in 1..4
       \/ /\ shift_str \in {Str(s) : s \in CalendarInputs}
          /\ target_dt \in Calendar \cup {NoneDate}
          /\ day_num = 0
    /\ clean_shift = <<>>
    /\ result = NotCalled
    /\ display = NothingShown
    /\ pc = "start"

\* a call of clean_input(shift_str)
CleanInput ==
    /\ pc = "start"
    /\ clean_shift' = clean_input(shift_str)
    /\ pc' = "cleaned"
    /\ UNCHANGED <<shift_str, target_dt, day_num, result, display>>

\* a call of get_day_number(target_dt)
DayNumber ==
    /\ pc = "start"
    /\ IF get_day_number_raises(target_dt)
       THEN /\ result' = Raise("TypeError",
                               "Internal Error: Input must be a date object.")
            /\ UNCHANGED day_num
       ELSE /\ day_num' = get_day_number(target_dt)
            /\ UNCHANGED result
    /\ pc' = "numbered"
    /\ UNCHANGED <<shift_str, target_dt, clean_shift, display>>

\* a call of get_shift_type_or_info(shift_str, day_num, target_dt); clean_shift
\* is the function's local of line 97, set once the two argument checks passed
Resolve ==
    /\ pc = "start"
    /\ result' = get_shift_type_or_info(shift_str, day_num, target_dt)
    /\ clean_shift' =
           IF 1 <= day_num /\ day_num <= 4 /\ IsDate(target_dt)
           THEN clean_input(shift_str) ELSE clean_shift
    /\ pc' = "returned"
    /\ UNCHANGED <<shift_str, target_dt, day_num, display>>

\* the "Calculate Day Number & Shift Type" button (lines 270-315); the text
\* widget always holds a str
Calculate ==
    /\ pc = "start"
    /\ shift_str.type = "str"
    /\ IF shift_str.val = <<>>
       THEN /\ display' = Shown("warning", "Please enter a shift name.")
            /\ UNCHANGED <<day_num, result, clean_shift>>
       ELSE IF target_dt = NoneDate
       THEN /\ display' = Shown("warning", "Please select a date.")
            /\ UNCHANGED <<day_num, result, clean_shift>>
       ELSE LET dn == get_day_number(target_dt)
                res == get_shift_type_or_info(shift_str, dn, target_dt)
            IN /\ day_num' = dn
               /\ result' = res
               /\ clean_shift' = clean_input(shift_str)
               /\ display' = IF res.kind = "raise" THEN render_exception(res)
                             ELSE render(res, shift_str, target_dt)
    /\ pc' = "displayed"
    /\ UNCHANGED <<shift_str, target_dt>>

Next == CleanInput \/ DayNumber \/ Resolve \/ Calculate

Spec == Init /\ [][Next]_vars

(***************************************************************************)
(* Properties.                                                             *)
(***************************************************************************)
\* the resolver ran on the request: called directly, or by the button
\* handler past its two input warnings
Resolved == pc \in {"returned", "displayed"} /\ result.kind # "pending"

\* the request's string was typed as line `name` with key k: any of the
\* three typings, alone or followed by a role qualifier.  A lone trailing
\* "md" is the role qualifier, not a key.
KeyedInputs(name, k) ==
    UNION {Typed(<<name, k, q>>) :
              q \in (IF k = w_md THEN Quals \ {<<>>} ELSE Quals)}

BlueKeyed == [k \in Keys |-> KeyedInputs(w_blue, k)]
YellowKeyed == [k \in Keys |-> KeyedInputs(w_yellow, k)]
PurpleKeyed == [k \in Keys |-> KeyedInputs(w_purple, k)]
BronzeKeyed == [k \in Keys |-> KeyedInputs(w_bronze, k)]
GoldKeyed == [k \in Keys |-> KeyedInputs(w_gold, k)]
SilverKeyed == [k \in Keys |-> KeyedInputs(w_silver, k)]
GrayTyped == UNION {Typed(<<w_gray, k, q>>) : k \in Keys, q \in Quals}

Bare(timing) == Ret(timing, "", <<>>)
WithAppTmlClause(timing) ==
    Ret(timing, " for APP/TML, MD is fixed 8 am - 5 pm (4 pm weekends/holidays)",
        <<>>)

\* the day after dt on the calendar
next_day(dt) ==
    IF dt.d < days_in_month(dt.y, dt.m) THEN Date(dt.y, dt.m, dt.d + 1)
    ELSE IF dt.m < 12 THEN Date(dt.y, dt.m + 1, 1)
    ELSE Date(dt.y + 1, 1, 1)

\* C1: get_shift_type_or_info never lets an exception escape: whatever the
\* raw input, date and day number, a direct call ends with a returned value.
C1_NeverRaises == pc = "returned" => result.kind \in {"return", "None"}

\* C2: for every date (before, at or after the anchor) the day number is in
\* 1..4, the next day's day number is (n mod 4) + 1, and the day number four
\* days later is the same.
C2_DayNumberCycles ==
    (pc = "numbered" /\ IsDate(target_dt)) =>
        /\ day_num \in 1..4
        /\ get_day_number(next_day(target_dt)) = (day_num % 4) + 1
        /\ get_day_number(next_day(next_day(next_day(next_day(target_dt)))))
               = day_num

C2_Witness ==
    /\ pc = "numbered"
    /\ target_dt = Date(ANCHOR_DATE.y - 1, 2, 29)
    /\ day_num = 2

\* C3: get_day_number of the anchor date 2025-03-12 is the anchor day number 3.
C3_AnchorDayNumber ==
    (pc = "numbered" /\ target_dt = Date(2025, 3, 12)) => day_num = 3

C3_Witness ==
    pc = "numbered" /\ target_dt = ANCHOR_DATE /\ day_num = ANCHOR_DAY_NUM

\* C4: clean_input is idempotent: cleaning what clean_input returned gives
\* it back unchanged.
C4_CleanIdempotent ==
    pc = "cleaned" => clean_input(Str(clean_shift)) = clean_shift

\* C5: on every date of 2025-04-07..2025-05-02 and every day number 1..4, Blue
\* with key 1 is Early on days 1, 3 and Middle on 2, 4; with key 3-1 or 3-2
\* Middle on 1, 3 and Early on 2, 4, each with the APP/TML clause; with any
\* other non-empty key it is a Failure naming the keys 1, 3-1, 3-2.
C5_SpecialBlue ==
    (/\ Resolved
     /\ day_num \in 1..4
     /\ date_le(Date(2025, 4, 7), target_dt)
     /\ date_le(target_dt, Date(2025, 5, 2))) =>
        \A k \in Keys \ {<<>>} :
            shift_str.val \in BlueKeyed[k] =>
                IF k = w_1
                THEN result = WithAppTmlClause(
                         IF day_num \in {1, 3} THEN "Early" ELSE "Middle")
                ELSE IF k \in {w_3_1, w_3_2}
                THEN result = WithAppTmlClause(
                         IF day_num \in {1, 3} THEN "Middle" ELSE "Early")
                ELSE /\ result.kind = "return"
                     /\ result.head = "Error:"
                     /\ result.tail = " Invalid suffix '{}' for Blue shift during 2025-04-07 to 2025-05-02. Use 1, 3-1, or 3-2."
                     /\ result.args = <<k>>

C5_Witness ==
    /\ pc = "returned"
    /\ shift_str.val = Messy(<<w_blue, w_3_1, w_md>>)
    /\ target_dt = Date(2025, 5, 2)
    /\ day_num = 2
    /\ result = WithAppTmlClause("Early")

\* C6: for every key among 1-1, 1-2, 2-1, 2-2, 3 and every day number 1..4,
\* Yellow, Purple and Bronze on any date and Blue on a date outside the
\* special period all return the YPBB_SUFFIX_ROTATION entry of the key and
\* day number with the APP/TML clause.
C6_SharedYpbbTable ==
    (Resolved /\ day_num \in 1..4) =>
        \A k \in {w_1_1, w_1_2, w_2_1, w_2_2, w_3} :
            (\/ shift_str.val \in YellowKeyed[k]
             \/ shift_str.val \in PurpleKeyed[k]
             \/ shift_str.val \in BronzeKeyed[k]
             \/ /\ shift_str.val \in BlueKeyed[k]
                /\ ~(/\ date_le(Date(2025, 4, 7), target_dt)
                     /\ date_le(target_dt, Date(2025, 5, 2))))
            => result = WithAppTmlClause(YPBB_SUFFIX_ROTATION[k][day_num])

C6_Witness ==
    /\ pc = "returned"
    /\ shift_str.val = Plain(<<w_blue, w_2_1>>)
    /\ target_dt = Date(2025, 5, 3)
    /\ day_num = 3
    /\ result = WithAppTmlClause("Early")

\* C7: for every day number 1..4 and date, Gold 1 and Silver with no key or
\* key 1 are bare Early, Gold with any count >= 6 and Silver with any count
\* >= 2 are bare Middle (whatever the number of digits of the count), with or
\* without a trailing md/app qualifier.
C7_GoldSilverFixed ==
    (Resolved /\ day_num \in 1..4) =>
        /\ \A n \in 1..MaxCount :
              /\ shift_str.val \in GoldKeyed[IntToStr(n)] =>
                    /\ n = 1 => result = Bare("Early")
                    /\ n >= 6 => result = Bare("Middle")
              /\ shift_str.val \in SilverKeyed[IntToStr(n)] =>
                    result = Bare(IF n = 1 THEN "Early" ELSE "Middle")
        /\ shift_str.val \in SilverKeyed[<<>>] => result = Bare("Early")
        /\ shift_str.val \in GoldKeyed[<<43, 49>>] => result = Bare("Early")
        /\ \A k \in {<<48, 54>>, <<49, 95, 48>>, <<49, 50>>} :
              shift_str.val \in GoldKeyed[k] \cup SilverKeyed[k] =>
                  result = Bare("Middle")
        /\ shift_str.val \in LongInputs => result = Bare("Middle")

\* C8: an input normalized to exactly "gray 1 md" or "mist transplant" is bare
\* Early on days 1, 3 and bare Middle on 2, 4; one normalized to exactly
\* "gray 2 md" or "gray 3 app" is bare Middle on 1, 3 and bare Early on 2, 4;
\* every other input whose first word is gray is a Failure.
C8_GrayMist ==
    (Resolved /\ day_num \in 1..4) =>
        IF clean_shift \in {Plain(<<w_gray, w_1, w_md>>),
                            Plain(<<w_mist, w_transplant>>)}
        THEN result = Bare(IF day_num \in {1, 3} THEN "Early" ELSE "Middle")
        ELSE IF clean_shift \in {Plain(<<w_gray, w_2, w_md>>),
                                 Plain(<<w_gray, w_3, w_app>>)}
        THEN result = Bare(IF day_num \in {1, 3} THEN "Middle" ELSE "Early")
        ELSE shift_str.val \in GrayTyped =>
                 result.kind = "return" /\ result.head = "Error:"

C8_Witness ==
    /\ pc = "returned"
    /\ shift_str.val = Messy(<<w_gray, w_2, w_md>>)
    /\ day_num = 2
    /\ result = Bare("Early")

\* C9: with a valid day number and date, an input that has a first word, whose
\* first word is none of gold, silver, blue, yellow, purple, bronze, green,
\* gray, and which is no exact multi-word role and does not start with
\* "mist scu", is Unrecognized (None), whatever follows the first word.
C9_UnknownLineIsNone ==
    (/\ pc = "returned"
     /\ day_num \in 1..4
     /\ IsDate(target_dt)
     /\ split(clean_shift) # <<>>
     /\ split(clean_shift)[1] \notin
            {w_gold, w_silver, w_blue, w_yellow, w_purple, w_bronze, w_green,
             w_gray}
     /\ clean_shift \notin
            {Plain(<<w_gray, w_1, w_md>>), Plain(<<w_gray, w_2, w_md>>),
             Plain(<<w_gray, w_3, w_app>>), Plain(<<w_mist, w_transplant>>)}
     /\ ~(/\ Len(clean_shift) >= 8
          /\ SubSeq(clean_shift, 1, 8) = Plain(<<w_mist, w_scu>>)))
    => result = RetNone

C9_Witness ==
    /\ pc = "returned"
    /\ shift_str.val = Plain(<<w_teal, w_1, w_md>>)
    /\ result = RetNone

\* C10: for every raw input, date and day number 1..4 the resolver returns no
\* "Internal Error: ..." value: a returned value is None, a string beginning
\* "Error:", or a string beginning Early, Middle or Late.
C10_NoInternalError ==
    (Resolved /\ day_num \in 1..4) =>
        /\ result.head # "Internal Error:"
        /\ result.kind = "return" =>
               result.head \in {"Error:", "Early", "Middle", "Late"}

C10_Witness ==
    /\ pc = "returned"
    /\ shift_str.val = Plain(<<w_gold, <<53>>>>)
    /\ day_num = 4
    /\ result = Bare("Late")

====
